---- MODULE Spec2Model ----
(***************************************************************************)
(* Model of src/main.js (Mapa Galactico): the scene index celestialMeshes, *)
(* the visibility filter, the scale slider, click picking and the orbit    *)
(* camera (drag, wheel zoom, reset, auto-rotation).                        *)
(*                                                                         *)
(* Each DOM listener is one atomic action: the page is single-threaded and *)
(* a listener runs to completion before the next event is dispatched.      *)
(*                                                                         *)
(* Object references are modelled by identity: an entity is its index in   *)
(* the catalog, a scene node is (index in celestialMeshes, part), where    *)
(* part is "root" for the mesh itself and "glow" for the child sphere that *)
(* createCelestialMesh adds to a distance-0 star.                          *)
(*                                                                         *)
(* The camera position is kept in the spherical form the handlers derive   *)
(* from it (radius, azimuth theta, polar angle phi), normalised to         *)
(* phi in [0, HalfTurn] and theta in [0, FullTurn): this is the Cartesian   *)
(* position up to the parametrisation.  Lengths are in hundredths of a     *)
(* scene unit, angles in steps of a circle of FullTurn steps.              *)
(*                                                                         *)
(* Not modelled: lights, starfield, grid and its toggle, window resize,    *)
(* the sphere sizes and colours, the meshes' own spin (rotation.y), and    *)
(* the pointer vector `mouse`, which only feeds the ray caster whose       *)
(* result is an input of OnMouseClick here.                                *)
(***************************************************************************)
EXTENDS Integers, Sequences, FiniteSets, TLC

VARIABLES
    celestialMeshes,        \* the scene index: sequence of mesh records
    controls,               \* the controls object
    selectedObject,         \* node holding the selection, or Null
    infoText,               \* what displayObjectInfo last wrote
    intersects,             \* first hit of the last ray cast, or Null
    camera,                 \* camera.position, spherical form
    lookingAway,            \* camera orientation points away from the origin
    rotationAngle,
    isDragging,
    previousMousePosition,
    buttonDown              \* the pointer's button is held (environment)

sceneVars == <<celestialMeshes, selectedObject, infoText, intersects>>
cameraVars == <<camera, lookingAway, rotationAngle, isDragging, previousMousePosition,
                buttonDown>>
vars == <<celestialMeshes, controls, selectedObject, infoText, intersects,
          camera, lookingAway, rotationAngle, isDragging, previousMousePosition,
          buttonDown>>

----------------------------------------------------------------------------
(* Bounds of the model *)

\* the circle has 4 * QuarterTurn angular steps
QuarterTurn == 2
\* the frame tick stops advancing rotationAngle beyond this
MaxRotationAngle == 4
\* wheel steps the camera may be zoomed out beyond the default radius
MaxZoomOutSteps == 1
\* the scale slider ranges over 0..MaxScale
MaxScale == 2
\* longest controls.sectors array
MaxSectors == 6

HalfTurn == 2 * QuarterTurn
FullTurn == 2 * HalfTurn
\* pointer coordinates, on both axes, of the events the model delivers
Pixels == {0, 1}
\* values of the rotation-speed slider the model operates
Speeds == {1, 2}
Scales == 0 .. MaxScale
\* values of the .sector checkboxes the model operates
SectorBoxes == {0, 1}

----------------------------------------------------------------------------
(* The catalog (data.js) *)

Types == {"star", "planet", "moon", "nebula"}

Catalog ==
    << [name |-> "Sol", type |-> "star", x |-> 0, y |-> 0, z |-> 0,
        distance |-> 0, sector |-> 0],
       [name |-> "Earth", type |-> "planet", x |-> 150, y |-> 0, z |-> 0,
        distance |-> 0, sector |-> 1],
       [name |-> "Luna", type |-> "moon", x |-> 150, y |-> 1, z |-> 0,
        distance |-> 0, sector |-> 1],
       [name |-> "Ceres", type |-> "asteroid", x |-> 400, y |-> 0, z |-> 0,
        distance |-> 0, sector |-> 1],
       [name |-> "Orion", type |-> "nebula", x |-> 0, y |-> 50, z |-> -400,
        distance |-> 1344, sector |-> 2] >>

Entities == 1 .. Len(Catalog)

\* userData of a node that was never stamped (three.js default {})
EmptyUserData == 0

----------------------------------------------------------------------------
(* Scene construction *)

Null == [mesh |-> 0, part |-> "null"]

\* new THREE.Mesh(geometry, material) placed at the entity's coordinates.
\* emissive is "none" where the material has no such property
\* (MeshBasicMaterial) and "black" for MeshStandardMaterial's default;
\* glow tells whether the mesh has the glow sphere as a child.
SphereMesh(material, glow, obj) ==
    [made |-> TRUE, material |-> material,
     emissive |-> IF material = "standard" THEN "black" ELSE "none",
     glow |-> glow, glowEmissive |-> "none",
     position |-> <<obj.x, obj.y, obj.z>>, visible |-> TRUE]

\* the null that createCelestialMesh returns
NoMesh ==
    [made |-> FALSE, material |-> "none", emissive |-> "none",
     glow |-> FALSE, glowEmissive |-> "none",
     position |-> <<0, 0, 0>>, visible |-> FALSE]

\* mutant of CreateCelestialMesh: the moon case is missing from the switch
CreateCelestialMeshNoMoon(e) ==
    LET obj == Catalog[e]
    IN  CASE obj.type = "star" -> SphereMesh("basic", obj.distance = 0, obj)
          [] obj.type = "planet" -> SphereMesh("standard", FALSE, obj)
          [] obj.type = "nebula" -> SphereMesh("basic", FALSE, obj)
          [] OTHER -> NoMesh

\* createCelestialMesh: the mesh for catalog entry e, NoMesh for a type
\* outside the switch
CreateCelestialMesh(e) ==
    LET obj == Catalog[e]
    IN  CASE obj.type = "star" -> SphereMesh("basic", obj.distance = 0, obj)
          [] obj.type = "planet" -> SphereMesh("standard", FALSE, obj)
          [] obj.type = "moon" -> SphereMesh("standard", FALSE, obj)
          [] obj.type = "nebula" -> SphereMesh("basic", FALSE, obj)
          [] OTHER -> NoMesh

\* the stamped mesh that createCelestialObjects pushes for entity e
StampedMesh(e) ==
    LET m == CreateCelestialMesh(e)
    IN  [userData |-> e, material |-> m.material, emissive |-> m.emissive,
         glow |-> m.glow, glowEmissive |-> m.glowEmissive,
         position |-> m.position, visible |-> m.visible]

RECURSIVE CreateFromStopsAtNull(_)
\* mutant of CreateFrom: the loop ends at the first entity without a mesh
CreateFromStopsAtNull(e) ==
    IF e > Len(Catalog) THEN << >>
    ELSE IF CreateCelestialMesh(e).made
         THEN <<StampedMesh(e)>> \o CreateFromStopsAtNull(e + 1)
         ELSE << >>

RECURSIVE CreateFrom(_)
\* createCelestialObjects, from catalog entry e on, in catalog order
CreateFrom(e) ==
    IF e > Len(Catalog) THEN << >>
    ELSE IF CreateCelestialMesh(e).made
         THEN <<StampedMesh(e)>> \o CreateFrom(e + 1)
         ELSE CreateFrom(e + 1)

CreateCelestialObjects == CreateFrom(1)

----------------------------------------------------------------------------
(* Visibility filter and scale *)

\* the switch of updateVisibility: the toggle that governs entity e
TypeVisible(ctl, e) ==
    CASE Catalog[e].type = "star" -> ctl.showStars
      [] Catalog[e].type = "planet" -> ctl.showPlanets
      [] Catalog[e].type = "moon" -> ctl.showMoons
      [] Catalog[e].type = "nebula" -> ctl.showNebulas
      [] OTHER -> FALSE

\* controls.sectors.includes(obj.sector)
SectorVisible(ctl, e) ==
    \E i \in 1 .. Len(ctl.sectors) : ctl.sectors[i] = Catalog[e].sector

\* mutant of UpdateVisibility: || in place of &&
UpdateVisibilityEither(ctl, meshes) ==
    [i \in 1 .. Len(meshes) |->
        [meshes[i] EXCEPT !.visible =
            TypeVisible(ctl, meshes[i].userData)
            \/ SectorVisible(ctl, meshes[i].userData)]]

\* updateVisibility over every mesh, under the controls ctl
UpdateVisibility(ctl, meshes) ==
    [i \in 1 .. Len(meshes) |->
        [meshes[i] EXCEPT !.visible =
            TypeVisible(ctl, meshes[i].userData)
            /\ SectorVisible(ctl, meshes[i].userData)]]

\* the four type checkboxes: set the toggle, then updateVisibility
SetToggle(ctl) ==
    /\ controls' = ctl
    /\ celestialMeshes' = UpdateVisibility(ctl, celestialMeshes)
    /\ UNCHANGED <<selectedObject, infoText, intersects>>
    /\ UNCHANGED cameraVars

ShowStars ==
    \E checked \in BOOLEAN :
        SetToggle([controls EXCEPT !.showStars = checked])

ShowPlanets ==
    \E checked \in BOOLEAN :
        SetToggle([controls EXCEPT !.showPlanets = checked])

ShowMoons ==
    \E checked \in BOOLEAN :
        SetToggle([controls EXCEPT !.showMoons = checked])

ShowNebulas ==
    \E checked \in BOOLEAN :
        SetToggle([controls EXCEPT !.showNebulas = checked])

\* controls.sectors.filter(s => s !== sector)
FilterOut(sectors, sector) ==
    SelectSeq(sectors, LAMBDA s : s # sector)

\* the new controls.sectors after a change event of a .sector checkbox
SectorsAfter(sectors, sector, checked) ==
    IF checked THEN Append(sectors, sector) ELSE FilterOut(sectors, sector)

SectorChange ==
    \E sector \in SectorBoxes, checked \in BOOLEAN :
        /\ checked => Len(controls.sectors) < MaxSectors
        /\ SetToggle([controls EXCEPT
                         !.sectors = SectorsAfter(@, sector, checked)])

\* mutant of ScaledPosition: scales the mesh's current position
CompoundedPosition(mesh, scale) ==
    <<mesh.position[1] * scale, mesh.position[2] * scale,
      mesh.position[3] * scale>>

\* lines 223-224: where the scale slider puts mesh, from its entity's
\* coordinates
ScaledPosition(mesh, scale) ==
    LET obj == Catalog[mesh.userData]
    IN  <<obj.x * scale, obj.y * scale, obj.z * scale>>

\* mutant of ScaleInput: a scale change also puts the camera back at its
\* default position
ScaleInputResetsView ==
    \E value \in Scales :
        /\ controls' = [controls EXCEPT !.scale = value]
        /\ celestialMeshes' =
              [i \in 1 .. Len(celestialMeshes) |->
                  [celestialMeshes[i] EXCEPT !.position =
                      ScaledPosition(celestialMeshes[i], value)]]
        /\ camera' = [camera EXCEPT !.r = 128062]
        /\ UNCHANGED <<selectedObject, infoText, intersects>>
        /\ UNCHANGED <<lookingAway, rotationAngle, isDragging,
                       previousMousePosition, buttonDown>>

\* the scale slider: every mesh is placed from its entity's coordinates
ScaleInput ==
    \E value \in Scales :
        /\ controls' = [controls EXCEPT !.scale = value]
        /\ celestialMeshes' =
              [i \in 1 .. Len(celestialMeshes) |->
                  [celestialMeshes[i] EXCEPT !.position =
                      ScaledPosition(celestialMeshes[i], value)]]
        /\ UNCHANGED <<selectedObject, infoText, intersects>>
        /\ UNCHANGED cameraVars

----------------------------------------------------------------------------
(* Picking *)

\* the nodes raycaster.intersectObjects(celestialMeshes) can report: every
\* mesh and, the search being recursive, the glow child of a mesh that has
\* one.  The ray caster does not look at a node's visible flag.
RayTargets(meshes) ==
    {[mesh |-> i, part |-> "root"] : i \in 1 .. Len(meshes)}
    \cup {[mesh |-> i, part |-> "glow"] :
             i \in {j \in 1 .. Len(meshes) : meshes[j].glow}}

\* node.userData
UserData(meshes, node) ==
    IF node.part = "root" THEN meshes[node.mesh].userData ELSE EmptyUserData

\* node.material.emissive
Emissive(meshes, node) ==
    IF node.part = "root" THEN meshes[node.mesh].emissive
    ELSE meshes[node.mesh].glowEmissive

\* node.material.emissive = colour
SetEmissive(meshes, node, colour) ==
    IF node.part = "root"
    THEN [meshes EXCEPT ![node.mesh].emissive = colour]
    ELSE [meshes EXCEPT ![node.mesh].glowEmissive = colour]

\* mutant of RevertPrevious: the previous selection is left as it is
RevertNothing(meshes, previous) == meshes

\* lines 324-326: the previous selection's emissive is set to black
RevertPrevious(meshes, previous) ==
    IF previous # Null THEN SetEmissive(meshes, previous, "black") ELSE meshes

\* lines 328-331: the new selection is highlighted if its material has an
\* emissive property (by now)
HighlightSelected(meshes, node) ==
    IF Emissive(meshes, node) # "none"
    THEN SetEmissive(meshes, node, "highlight")
    ELSE meshes

\* the entity onMouseClick reports for the nearest hit
PickedUserData(meshes, hit) == UserData(meshes, hit)

\* onMouseClick when the nearest intersection is node hit
ClickHit(hit) ==
    /\ hit \in RayTargets(celestialMeshes)
    /\ intersects' = hit
    /\ infoText' = PickedUserData(celestialMeshes, hit)
    /\ celestialMeshes' =
          HighlightSelected(RevertPrevious(celestialMeshes, selectedObject), hit)
    /\ selectedObject' = hit
    /\ UNCHANGED controls
    /\ UNCHANGED cameraVars

\* mutant of MissEffect: a miss clears the selection
MissDeselects ==
    /\ selectedObject' = Null
    /\ celestialMeshes' = RevertPrevious(celestialMeshes, selectedObject)
    /\ UNCHANGED <<infoText, controls>>

\* what onMouseClick changes when intersects is empty: nothing
MissEffect ==
    UNCHANGED <<celestialMeshes, selectedObject, infoText, controls>>

\* onMouseClick when the ray hits nothing
ClickMiss ==
    /\ intersects' = Null
    /\ MissEffect
    /\ UNCHANGED cameraVars

OnMouseClick ==
    \/ \E hit \in RayTargets(celestialMeshes) : ClickHit(hit)
    \/ ClickMiss

----------------------------------------------------------------------------
(* Camera *)

\* |(800, 600, 800)| = 1280.62, in hundredths
DefaultRadius == 128062
\* zoomSpeed = 50, in hundredths
ZoomSpeed == 5000
\* the drag's rotationSpeed = 0.005 rad per pixel, in units of 0.0005 rad
DragSensitivity == 10
\* the frame tick's 0.001 rad per unit of rotation speed, same units
BaseRate == 2

MaxRadius == DefaultRadius + MaxZoomOutSteps * ZoomSpeed

\* atan2(800, 800) is an eighth of a turn, to the step below
DefaultTheta == HalfTurn \div 4
\* acos(600 / 1280.62) is 0.3446 of a half turn.  It is no multiple of the
\* drag step, so no drag puts the camera exactly on the vertical axis: phi
\* is kept on the odd steps, and the steps of a drag are even.
DefaultPhi == 2 * (((HalfTurn * 3446) \div 10000) \div 2) + 1

\* camera.position.set(800, 600, 800)
DefaultCamera ==
    [r |-> DefaultRadius, theta |-> DefaultTheta, phi |-> DefaultPhi,
     nan |-> FALSE]

\* the position r * (sin phi sin theta, cos phi, sin phi cos theta) for any
\* angles, in the form atan2 and acos read back from it: phi in
\* [0, HalfTurn], theta in [0, FullTurn), theta 0 on the vertical axis
OnSphere(r, theta, phi) ==
    LET p == phi % FullTurn
        ph == IF p > HalfTurn THEN FullTurn - p ELSE p
        th == IF p > HalfTurn THEN (theta + HalfTurn) % FullTurn
              ELSE theta % FullTurn
    IN  [r |-> r, theta |-> IF ph \in {0, HalfTurn} THEN 0 ELSE th,
         phi |-> ph, nan |-> FALSE]

\* a position computed from radius 0 or from NaN: acos(y / radius) is NaN
NaNCamera == [r |-> 0, theta |-> 0, phi |-> 0, nan |-> TRUE]

\* lines 272-283: the position a drag by (deltaX, deltaY) pixels gives
DragPosition(cam, deltaX, deltaY) ==
    IF cam.nan \/ cam.r = 0 THEN NaNCamera
    ELSE OnSphere(cam.r, cam.theta - deltaX * DragSensitivity,
                  cam.phi + deltaY * DragSensitivity)

\* lines 358-367: the position the auto-rotate tick gives at azimuth angle
RotatedPosition(cam, angle) ==
    IF cam.nan \/ cam.r = 0 THEN NaNCamera
    ELSE OnSphere(cam.r, angle, cam.phi)

\* the signed distance from the origin, along the line from the origin to
\* the camera, after addScaledVector(direction, step): direction is the
\* camera's orientation, which points at the origin unless away
RadialAfter(cam, away, step) ==
    IF away THEN cam.r + step ELSE cam.r - step

\* lines 297-301: the step along the view direction
ZoomStep(deltaY) == IF deltaY < 0 THEN ZoomSpeed ELSE -ZoomSpeed

\* the position after the wheel step; through the origin the camera comes
\* out on the opposite side
ZoomPosition(cam, away, deltaY) ==
    LET rho == RadialAfter(cam, away, ZoomStep(deltaY))
    IN  IF cam.nan THEN cam
        ELSE IF rho >= 0 THEN [cam EXCEPT !.r = rho]
        ELSE [cam EXCEPT !.r = -rho,
                         !.theta = (cam.theta + HalfTurn) % FullTurn,
                         !.phi = HalfTurn - cam.phi]

\* whether the unchanged orientation points away from the origin at the
\* position after the wheel step
ZoomAway(cam, away, deltaY) ==
    IF cam.nan \/ RadialAfter(cam, away, ZoomStep(deltaY)) >= 0
    THEN away ELSE ~away

\* the button is pressed over the canvas: the canvas mousedown listener
MouseDown ==
    \E x \in Pixels, y \in Pixels :
        /\ ~buttonDown
        /\ buttonDown' = TRUE
        /\ isDragging' = TRUE
        /\ controls' = [controls EXCEPT !.autoRotate = FALSE]
        /\ previousMousePosition' = [x |-> x, y |-> y]
        /\ UNCHANGED <<camera, lookingAway, rotationAngle>>
        /\ UNCHANGED sceneVars

\* what a button release does to isDragging when the pointer is outside
\* the canvas: the mouseup listener is registered on renderer.domElement
\* only, so no listener runs
ReleasedOutside == isDragging

\* the button is released over the canvas: the canvas mouseup listener
MouseUp ==
    /\ buttonDown
    /\ buttonDown' = FALSE
    /\ isDragging' = FALSE
    /\ UNCHANGED <<camera, lookingAway, rotationAngle, previousMousePosition>>
    /\ UNCHANGED <<controls, sceneVars>>

\* the button is pressed outside the canvas: no listener runs
PointerDownOutside ==
    /\ ~buttonDown
    /\ buttonDown' = TRUE
    /\ UNCHANGED <<camera, lookingAway, rotationAngle, isDragging,
                   previousMousePosition>>
    /\ UNCHANGED <<controls, sceneVars>>

\* the button is released outside the canvas
PointerUpOutside ==
    /\ buttonDown
    /\ buttonDown' = FALSE
    /\ isDragging' = ReleasedOutside
    /\ UNCHANGED <<camera, lookingAway, rotationAngle, previousMousePosition>>
    /\ UNCHANGED <<controls, sceneVars>>

\* the canvas mousemove listener
MouseMove ==
    \E x \in Pixels, y \in Pixels :
        /\ IF isDragging
           THEN /\ camera' = DragPosition(camera,
                                 x - previousMousePosition.x,
                                 y - previousMousePosition.y)
                /\ lookingAway' = FALSE
                /\ previousMousePosition' = [x |-> x, y |-> y]
           ELSE UNCHANGED <<camera, lookingAway, previousMousePosition>>
        /\ UNCHANGED <<rotationAngle, isDragging, buttonDown, controls, sceneVars>>

WheelDeltas == {-1, 0, 1}

\* the wheel listener for an event with this deltaY
WheelBy(deltaY) ==
    /\ ZoomPosition(camera, lookingAway, deltaY).r <= MaxRadius
    /\ camera' = ZoomPosition(camera, lookingAway, deltaY)
    /\ lookingAway' = ZoomAway(camera, lookingAway, deltaY)
    /\ UNCHANGED <<rotationAngle, isDragging, previousMousePosition, buttonDown>>
    /\ UNCHANGED <<controls, sceneVars>>

Wheel == \E deltaY \in WheelDeltas : WheelBy(deltaY)

\* mutant of ResetView: reset also stops the auto-rotation
ResetViewStopsRotation ==
    /\ camera' = DefaultCamera
    /\ lookingAway' = FALSE
    /\ controls' = [controls EXCEPT !.autoRotate = FALSE]
    /\ UNCHANGED <<rotationAngle, isDragging, previousMousePosition, buttonDown>>
    /\ UNCHANGED sceneVars

\* the reset-view button
ResetView ==
    /\ camera' = DefaultCamera
    /\ lookingAway' = FALSE
    /\ UNCHANGED <<rotationAngle, isDragging, previousMousePosition, buttonDown>>
    /\ UNCHANGED <<controls, sceneVars>>

ToggleRotation ==
    /\ controls' = [controls EXCEPT !.autoRotate = ~controls.autoRotate]
    /\ UNCHANGED cameraVars
    /\ UNCHANGED sceneVars

RotationSpeed ==
    \E value \in Speeds :
        /\ controls' = [controls EXCEPT !.rotationSpeed = value]
        /\ UNCHANGED cameraVars
        /\ UNCHANGED sceneVars

\* mutant of AutoRotates: the frame tick does not look at isDragging
AutoRotatesWhileDragging == controls.autoRotate

\* mutant of AutoRotates: the negation of isDragging is missing
AutoRotatesOnlyDragging == controls.autoRotate /\ isDragging

\* line 356: whether this frame auto-rotates
AutoRotates == controls.autoRotate /\ ~isDragging

\* line 357: rotationAngle after the tick
NextAngle == rotationAngle + BaseRate * controls.rotationSpeed

\* one frame
Animate ==
    /\ IF AutoRotates
       THEN /\ NextAngle <= MaxRotationAngle
            /\ rotationAngle' = NextAngle
            /\ camera' = RotatedPosition(camera, NextAngle)
            /\ lookingAway' = FALSE
       ELSE UNCHANGED <<rotationAngle, camera, lookingAway>>
    /\ UNCHANGED <<isDragging, previousMousePosition, buttonDown, controls,
                   sceneVars>>

----------------------------------------------------------------------------
(* Specifications *)

\* the state when init() has returned
Init ==
    /\ celestialMeshes = CreateCelestialObjects
    /\ controls = [showStars |-> TRUE, showPlanets |-> TRUE,
                   showMoons |-> TRUE, showNebulas |-> TRUE,
                   sectors |-> <<1, 2, 3, 4, 5>>, scale |-> 1,
                   autoRotate |-> FALSE, rotationSpeed |-> 1]
    /\ selectedObject = Null
    /\ infoText = EmptyUserData
    /\ intersects = Null
    /\ camera = DefaultCamera
    /\ lookingAway = FALSE
    /\ rotationAngle = 0
    /\ isDragging = FALSE
    /\ previousMousePosition = [x |-> 0, y |-> 0]
    /\ buttonDown = FALSE

FilterCommand ==
    ShowStars \/ ShowPlanets \/ ShowMoons \/ ShowNebulas \/ SectorChange

\* the filter panel, the scale slider and picking, with the frame loop
NextScene ==
    \/ ShowStars
    \/ ShowPlanets
    \/ ShowMoons
    \/ ShowNebulas
    \/ SectorChange
    \/ ScaleInput
    \/ OnMouseClick
    \/ Animate

\* the camera navigator
NextCamera ==
    \/ MouseDown
    \/ MouseUp
    \/ PointerDownOutside
    \/ PointerUpOutside
    \/ MouseMove
    \/ Wheel
    \/ ResetView
    \/ ToggleRotation
    \/ RotationSpeed
    \/ Animate

Next == NextScene \/ NextCamera

\* a click whose nearest hit is the first mesh of the scene index
ClickFirstMesh == ClickHit([mesh |-> 1, part |-> "root"])

\* a wheel event that scrolls out
ScrollOut == WheelBy(1)

\* scene and camera events interleaved: one type toggle, the scale slider,
\* clicks on the first mesh, drags, scroll-out, reset,
\* the rotation toggle and the frame loop
NextMixed ==
    \/ ShowPlanets
    \/ ScaleInput
    \/ ClickFirstMesh
    \/ MouseDown
    \/ MouseUp
    \/ MouseMove
    \/ ScrollOut
    \/ ResetView
    \/ ToggleRotation
    \/ Animate

Spec == Init /\ [][Next]_vars

SpecScene == Init /\ [][NextScene]_vars

SpecCamera == Init /\ [][NextCamera]_vars

SpecMixed == Init /\ [][NextMixed]_vars

----------------------------------------------------------------------------
(* Properties *)

\* the filter state as the two sets the filter is specified over
TypeEnabled ==
    (IF controls.showStars THEN {"star"} ELSE {})
    \cup (IF controls.showPlanets THEN {"planet"} ELSE {})
    \cup (IF controls.showMoons THEN {"moon"} ELSE {})
    \cup (IF controls.showNebulas THEN {"nebula"} ELSE {})

SectorEnabled == {controls.sectors[i] : i \in 1 .. Len(controls.sectors)}

Handles == 1 .. Len(celestialMeshes)

EntityOf(i) == Catalog[celestialMeshes[i].userData]

HandlesOf(e) == {i \in Handles : celestialMeshes[i].userData = e}

VisibilityAgrees ==
    \A i \in Handles :
        celestialMeshes[i].visible =
            (EntityOf(i).type \in TypeEnabled
             /\ EntityOf(i).sector \in SectorEnabled)

\* C1: once a filter command (a type toggle or a sector check/uncheck) has
\* been handled, every handle is visible exactly if its entity's type is
\* enabled and its entity's sector is among the enabled sectors.
C1_FilterApplied == [][FilterCommand => VisibilityAgrees']_vars

\* C1 witness: stars only, sectors 0 and 1 enabled: only Sol's handle shows
C1_OnlySolVisible ==
    /\ TypeEnabled = {"star"}
    /\ {0, 1} \subseteq SectorEnabled
    /\ \A i \in Handles : celestialMeshes[i].visible = (EntityOf(i).name = "Sol")

\* C2: whatever scale changes came before, every handle sits at its
\* entity's original coordinates times the current scale factor.
C2_PositionsScaled ==
    \A i \in Handles :
        celestialMeshes[i].position =
            <<EntityOf(i).x * controls.scale, EntityOf(i).y * controls.scale,
              EntityOf(i).z * controls.scale>>

\* C2 witness: at scale 2 Earth's handle is at (300, 0, 0), Sol's at the
\* origin
C2_EarthAt300 ==
    /\ controls.scale = 2
    /\ \E i \in Handles :
          EntityOf(i).name = "Earth" /\ celestialMeshes[i].position = <<300, 0, 0>>
    /\ \E i \in Handles :
          EntityOf(i).name = "Sol" /\ celestialMeshes[i].position = <<0, 0, 0>>

\* C3 as claimed: every catalog entity has exactly one handle whose
\* back-reference is that entity, and every handle refers to a catalog
\* entity.
C3_OneHandlePerEntity ==
    /\ \A e \in Entities : Cardinality(HandlesOf(e)) = 1
    /\ \A i \in Handles : celestialMeshes[i].userData \in Entities

KnownEntities == {e \in Entities : Catalog[e].type \in Types}

\* C3 amended: every catalog entity of one of the four known types has
\* exactly one handle, an entity of another type has none, every handle
\* refers to a catalog entity, and the number of handles stays the number
\* of entities of known type.
C3_OneHandlePerKnownEntity ==
    /\ \A e \in KnownEntities : Cardinality(HandlesOf(e)) = 1
    /\ \A e \in Entities \ KnownEntities : HandlesOf(e) = {}
    /\ \A i \in Handles : celestialMeshes[i].userData \in Entities
    /\ Len(celestialMeshes) = Cardinality(KnownEntities)

\* C3 witness: filter, scale and click events have been handled
C3_AfterEvents ==
    /\ selectedObject # Null
    /\ controls.scale = 2
    /\ \E i \in Handles : ~celestialMeshes[i].visible
    /\ Len(celestialMeshes) = 4

\* C4: a pointer-down leaves the drag active and auto-rotation off, and a
\* frame tick during a drag moves neither the camera nor rotationAngle,
\* whatever autoRotate is: no frame applies an auto-rotate update while a
\* drag is in progress.
C4_DragExcludesAutoRotate ==
    [][/\ MouseDown => (isDragging' /\ ~controls'.autoRotate)
       /\ (isDragging /\ Animate) =>
              (camera' = camera /\ rotationAngle' = rotationAngle)]_vars

\* C4 witness: auto-rotation has run, a drag is in progress and the toggle
\* has been switched on again during it
C4_ToggledOnDuringDrag ==
    isDragging /\ controls.autoRotate /\ rotationAngle > 0

\* C5: the node a click selects is a handle root, and the entity reported
\* is that handle's entity, also when the nearest hit is a descendant such
\* as the glow sphere.
C5_PickClimbsToHandle ==
    selectedObject # Null =>
        /\ selectedObject.part = "root"
        /\ infoText = celestialMeshes[selectedObject.mesh].userData
        /\ infoText \in Entities

\* C6: a click never selects or reports a node of a handle that is hidden
\* at the time of the click.
C6_HiddenNeverPicked ==
    [][\A hit \in RayTargets(celestialMeshes) :
          ClickHit(hit) => celestialMeshes[hit.mesh].visible]_vars

\* C7: a wheel event leaves theta, phi and the mode flags as they were;
\* scroll-in shortens the radius, scroll-out lengthens it.
C7_ZoomOnlyRadius ==
    [][\A deltaY \in WheelDeltas :
          WheelBy(deltaY) =>
              /\ camera'.theta = camera.theta
              /\ camera'.phi = camera.phi
              /\ deltaY < 0 => camera'.r < camera.r
              /\ deltaY > 0 => camera'.r > camera.r
              /\ isDragging' = isDragging
              /\ controls' = controls]_vars

\* C8: the radius is never zero, zoom being clamped: no wheel step takes
\* the camera to the origin or through it, so the camera always faces the
\* origin from a positive distance.
C8_ZoomClamped ==
    /\ ~camera.nan
    /\ camera.r > 0
    /\ ~lookingAway

\* C9: reset puts the camera at the default position, looking at the
\* origin, and changes neither the mode flags nor the filter, scale or
\* selection state.
C9_ResetOnlyCamera ==
    [][ResetView =>
          /\ camera' = [r |-> DefaultRadius, theta |-> DefaultTheta,
                        phi |-> DefaultPhi, nan |-> FALSE]
          /\ ~lookingAway'
          /\ UNCHANGED <<isDragging, controls, rotationAngle>>
          /\ UNCHANGED <<celestialMeshes, selectedObject, infoText>>]_vars

\* C9 witness: the camera is back at the default position although
\* auto-rotation has turned it, with a drag in progress and the toggle on
C9_ResetDuringDrag ==
    /\ camera = DefaultCamera
    /\ rotationAngle > 0
    /\ isDragging
    /\ controls.autoRotate

\* C10: a click whose ray hits nothing changes neither the selection, the
\* highlights, the displayed description, the filter state nor the camera.
C10_MissIsNoOp ==
    [][ClickMiss =>
          /\ UNCHANGED <<celestialMeshes, selectedObject, infoText, controls>>
          /\ UNCHANGED cameraVars]_vars

\* C10 witness: the last ray cast hit nothing while a highlighted selection
\* and its description are in place
C10_MissWithSelection ==
    /\ intersects = Null
    /\ selectedObject # Null
    /\ Emissive(celestialMeshes, selectedObject) = "highlight"
    /\ infoText \in Entities

\* C11: an entity whose type is outside the four known ones has no handle,
\* the entities after it in the catalog still have theirs, and neither a
\* ray cast, the selection nor the description ever refers to it.
C11_UnknownTypeUnreachable ==
    /\ \A e \in Entities \ KnownEntities :
          /\ HandlesOf(e) = {}
          /\ infoText # e
          /\ \A node \in {intersects, selectedObject} \ {Null} :
                UserData(celestialMeshes, node) # e
    /\ \A e \in KnownEntities : HandlesOf(e) # {}

\* C11 witness: an entity that follows the unknown-type one in the catalog
\* has been picked and reported
C11_LaterEntityPicked ==
    /\ selectedObject # Null
    /\ infoText \in KnownEntities
    /\ \E e \in Entities \ KnownEntities : infoText > e

\* C15: in every reachable state, the initial one included, every handle's
\* visible flag agrees with the filter state.
C15_VisibleAlwaysAgrees ==
    \A i \in Handles :
        celestialMeshes[i].visible <=>
            (EntityOf(i).type \in TypeEnabled
             /\ EntityOf(i).sector \in SectorEnabled)

\* C16: at most one node carries the selection highlight, and a node that
\* does is the one held in selectedObject, whatever its material.
C16_OnlySelectedHighlighted ==
    \A node \in RayTargets(celestialMeshes) :
        Emissive(celestialMeshes, node) = "highlight" => node = selectedObject

\* C16 witness: a mesh with a basic material is selected and highlighted
\* after the glow node, also basic, was selected and reverted
C16_BasicHighlighted ==
    /\ selectedObject # Null
    /\ selectedObject.part = "root"
    /\ celestialMeshes[selectedObject.mesh].material = "basic"
    /\ celestialMeshes[selectedObject.mesh].emissive = "highlight"
    /\ \E i \in Handles : celestialMeshes[i].glowEmissive = "black"

\* C12: a frame tick with auto-rotation on and no drag advances
\* rotationAngle by the base rate times the rotation speed and moves the
\* camera's azimuth by that increment from where it was, radius and polar
\* angle unchanged.
C12_AzimuthAdvances ==
    [][(Animate /\ controls.autoRotate /\ ~isDragging) =>
          /\ rotationAngle' = rotationAngle + BaseRate * controls.rotationSpeed
          /\ camera'.r = camera.r
          /\ camera'.phi = camera.phi
          /\ camera'.theta =
                (camera.theta + BaseRate * controls.rotationSpeed) % FullTurn]_vars

\* C14: isDragging is true only while the button is held: every release,
\* over the canvas or outside it, ends the drag.
C14_DragOnlyWhileButtonHeld == isDragging => buttonDown

\* the frame tick is one that advances rotationAngle, whenever the bound
\* of the model on rotationAngle leaves room for it
TickAdvances ==
    rotationAngle + BaseRate * controls.rotationSpeed <= MaxRotationAngle
        => ENABLED (Animate /\ rotationAngle' > rotationAngle)

\* C13 as claimed: whenever auto-rotation is switched on, from Idle or
\* during a drag, every frame tick advances rotationAngle until a
\* pointer-down or another toggle switches it off.
C13_OnMeansRotating == controls.autoRotate => TickAdvances

\* C13 amended: the toggle inverts autoRotate; while autoRotate is on and
\* no drag is in progress every frame tick advances rotationAngle; and
\* only a pointer-down on the canvas or another toggle switches it off.
C13_OnRotatesUnlessDragging ==
    /\ [](controls.autoRotate /\ ~isDragging => TickAdvances)
    /\ [][/\ ToggleRotation => controls'.autoRotate = ~controls.autoRotate
          /\ (controls.autoRotate /\ ~controls'.autoRotate) =>
                 (MouseDown \/ ToggleRotation)]_vars

\* C13 witness: auto-rotation is on, no drag is in progress and the ticks
\* have advanced rotationAngle
C13_Rotating ==
    controls.autoRotate /\ ~isDragging /\ rotationAngle > 0

\* the visible flag and the position of every handle
Placement ==
    [i \in Handles |->
        <<celestialMeshes[i].visible, celestialMeshes[i].position>>]

\* C17: a pointer-move with no drag in progress, a filter command, a scale
\* change and a click leave the camera position, rotationAngle, isDragging
\* and autoRotate as they were; a drag, a wheel event, reset, the rotation
\* toggle and a frame tick leave every handle's visible flag and position
\* as they were.
C17_CameraAndSceneApart ==
    [][/\ \/ /\ UNCHANGED <<camera, rotationAngle, isDragging>>
             /\ controls'.autoRotate = controls.autoRotate
          \/ ~ \/ ~isDragging /\ MouseMove
               \/ FilterCommand
               \/ ScaleInput
               \/ OnMouseClick
       /\ \/ Placement' = Placement
          \/ ~ \/ isDragging /\ MouseMove
               \/ Wheel
               \/ ResetView
               \/ ToggleRotation
               \/ Animate]_vars

\* C17 witness: with the camera zoomed out and turned by auto-rotation, a
\* drag in progress and the toggle on, planets are hidden, the scale is 2
\* and the first mesh is selected
C17_BothExercised ==
    /\ camera.r > DefaultRadius
    /\ rotationAngle > 0
    /\ isDragging
    /\ controls.autoRotate
    /\ ~controls.showPlanets
    /\ controls.scale = 2
    /\ selectedObject # Null

====
